---- MODULE Spec2Model ----
(***************************************************************************)
(* Model of the invoice bot (src/invoice_bot/src): the text extractor      *)
(* (extractor.py), the validator (validator.py) and the orchestration      *)
(* (main.py).                                                              *)
(*                                                                         *)
(* Strings are sequences of one-character strings.  An optional value is a *)
(* tagged record: None, Str(s) or Num(v).                                  *)
(*                                                                         *)
(* Three specifications:                                                   *)
(*   Spec          one call of process_single_invoice on one PDF           *)
(*   SpecValidate  one call of Validator.validate_invoice_data             *)
(*   SpecRun       calls of run_bot_logic sharing the caller's config      *)
(***************************************************************************)
EXTENDS Integers, Sequences, FiniteSets, TLC

\* ---------------------------------------------------------------- bounds
MaxPages == 2
MaxRetries == 1
MaxAmountLen == 2
MaxFiles == 3
MaxRuns == 2
MaxRecords == 50
MaxTokens == 3

\* ------------------------------------------------------ program constants
MinWords == 50

\* ----------------------------------------------------------------- values
None == [t |-> "none"]
Str(s) == [t |-> "str", s |-> s]
Num(v) == [t |-> "num", v |-> v]

\* ---------------------------------------------------------- string helpers
IsSpace(c) == c \in {" ", "\n"}

IsBlank(s) == \A i \in 1..Len(s) : IsSpace(s[i])

\* len(s.split()): the number of maximal runs of non-whitespace characters
WordCount(s) ==
  Cardinality({i \in 1..Len(s) : ~IsSpace(s[i]) /\ (i = 1 \/ IsSpace(s[i-1]))})

\* s.strip()
Strip(s) ==
  IF IsBlank(s) THEN <<>>
  ELSE LET first == CHOOSE i \in 1..Len(s) :
                      ~IsSpace(s[i]) /\ \A j \in 1..(i-1) : IsSpace(s[j])
           last == CHOOSE i \in 1..Len(s) :
                      ~IsSpace(s[i]) /\ \A j \in (i+1)..Len(s) : IsSpace(s[j])
       IN SubSeq(s, first, last)

\* "\n".join(texts)
RECURSIVE JoinNL(_)
JoinNL(texts) ==
  IF texts = <<>> THEN <<>>
  ELSE IF Len(texts) = 1 THEN texts[1]
  ELSE texts[1] \o <<"\n">> \o JoinNL(Tail(texts))

\* n words "a" separated by single spaces
Words(n) == [i \in 1..(2*n - 1) |-> IF i % 2 = 1 THEN "a" ELSE " "]

\* ------------------------------------------------------- engine behaviours
\* what page.extract_text() can return: None or a string
PageTexts ==
  { None, Str(<<" ">>), Str(Words(1)), Str(Words(MinWords \div 2)),
    Str(<<" ">> \o Words(MinWords \div 2)), Str(Words(MinWords)) }

\* what reader.readtext(img) can do: raise, or return a list of box texts
OcrResults ==
  { [kind |-> "raise", texts |-> <<>>],
    [kind |-> "ok", texts |-> <<>>],
    [kind |-> "ok", texts |-> << <<" ">> >>],
    [kind |-> "ok", texts |-> << <<"a">>, <<"a">> >>] }

VARIABLES
  \* --- one call of process_single_invoice (Spec)
  config_ocr_enabled,  \* config['ocr']['enabled'] as passed in
  ocr_retries,         \* config['ocr']['ocr_retries']
  pdf_structures,      \* the installed pdfplumber has pdf_structures.PDFSyntaxError
  npages,              \* len(pdf.pages) of the file
  pc,                  \* position in process_single_invoice / Extractor
  ocr_enabled,         \* Extractor.ocr_enabled
  reader,              \* Extractor.reader is not None
  page,                \* index of the next page in the current page loop
  full_text,           \* _extract_text_with_pdfplumber.full_text
  attempt,             \* attempt index of the retry loop
  page_text,           \* _extract_text_with_ocr.page_text
  full_ocr_text,       \* _extract_text_with_ocr.full_ocr_text
  extraction_result,   \* the dict returned by extract_text_from_pdf
  extract_outcome,     \* "none" | "returned" | "raised"
  processed_data,      \* the dict process_single_invoice returns
  \* --- history of the engine calls of that call
  page_returns,        \* what extract_text() returned, page by page
  ocr_calls,           \* number of reader.readtext calls
  ocr_pages,           \* page_text of every page whose retry loop finished
  ocr_yielded,         \* some readtext call returned text that is not blank
  reader_inits,        \* number of easyocr.Reader(...) constructions
  attempt_returned,    \* some readtext call on the current page returned
  \* --- one call of validate_invoice_data (SpecValidate)
  vinput,              \* the dict passed to validate_invoice_data
  vdata,               \* that dict as the call leaves it
  vpc,                 \* "call" | "returned" | "raised" | "summarised"
  vsummary,            \* the string get_validation_summary returns
  \* --- calls of run_bot_logic (SpecRun)
  config,              \* the caller's config dict: [ocr_enabled]
  run_pc,              \* position in run_bot_logic
  invoice_files,       \* the files of the current call, each "good" or "throws"
  use_ocr,             \* use_ocr of the current call
  progress,            \* the calls of update_progress_callback: <<current, total>>
  processed_results,   \* run_bot_logic.processed_results
  reported,            \* the lists handed to Reporter.generate_report
  runs,                \* calls of run_bot_logic made so far
  num_threads,         \* run_bot_logic.num_threads, None while it is unbound
  \* --- one call of Reporter.send_email_notification (SpecNotify)
  email_config,        \* Reporter.email_config: enabled, threshold
  credentials,         \* sender email, password and recipient are all set
  notify_data,         \* the list passed to send_email_notification
  notify_pc,           \* "idle" | "call" | "returned"
  send_email_calls,    \* calls of Reporter._send_email
  smtp_connections,    \* smtplib.SMTP_SSL connections opened
  \* --- one call of Parser.parse_invoice_data (SpecParse)
  ptext,               \* the text passed to parse_invoice_data
  regex_outcome,       \* what re.search does with each configured pattern
  heuristic_outcome,   \* what the date and vendor heuristics return
  parsed,              \* parse_invoice_data.parsed_data
  consulted,           \* the fields whose _intelligent_ method was called
  parse_pc,            \* "idle" | "call" | "returned"
  \* --- the window of InvoiceBotGUI around run_bot_logic (SpecGui)
  gui_files,           \* InvoiceBotGUI.invoice_files
  ocr_enabled_var,     \* InvoiceBotGUI.ocr_enabled_var
  start_button,        \* state of the Start button: "normal" | "disabled"
  threads,             \* the args of the processing threads started so far
  after_handled,       \* how many master.after callbacks the main loop ran
  progress_bar,        \* the progress bar: [maximum, value]
  progress_label,      \* what the progress label shows
  dialog,              \* the message of the last message box shown
  completions          \* "Processing Complete" boxes shown so far

fileVars ==
  << config_ocr_enabled, ocr_retries, pdf_structures, npages, pc, ocr_enabled,
     reader, page, full_text, attempt, page_text, full_ocr_text,
     extraction_result, extract_outcome, processed_data, page_returns,
     ocr_calls, ocr_pages, ocr_yielded, reader_inits, attempt_returned >>

validateVars == << vinput, vdata, vpc, vsummary >>

runVars ==
  << config, run_pc, invoice_files, use_ocr, progress, processed_results,
     reported, runs, num_threads >>

notifyVars ==
  << email_config, credentials, notify_data, notify_pc, send_email_calls,
     smtp_connections >>

parseVars ==
  << ptext, regex_outcome, heuristic_outcome, parsed, consulted, parse_pc >>

guiVars ==
  << gui_files, ocr_enabled_var, start_button, threads, after_handled,
     progress_bar, progress_label, dialog, completions >>

restVars == << notifyVars, parseVars, guiVars >>

vars == << fileVars, validateVars, runVars, restVars >>

\* ------------------------------------------------------------ extractor.py
\* extraction_result as initialised by extract_text_from_pdf
EmptyExtractionResult ==
  [ text |-> <<>>, extraction_method |-> "UNKNOWN", text_length |-> 0,
    confidence_score |-> "N/A" ]

\* page.extract_text() or ""
OrEmpty(r) == IF r = None \/ r.s = <<>> THEN <<>> ELSE r.s

WordCountSufficientStrict(direct_text) == WordCount(direct_text) > MinWords

\* word_count >= 50
WordCountSufficient(direct_text) == WordCount(direct_text) >= MinWords

OcrTextAcceptedNoStrip(ocr_text) == ocr_text # <<>>

\* if ocr_text.strip():
OcrTextAccepted(ocr_text) == Strip(ocr_text) # <<>>

\* the result dict of the three return statements of extract_text_from_pdf
DirectResult(direct_text) ==
  [ text |-> direct_text, extraction_method |-> "DIRECT",
    text_length |-> Len(direct_text), confidence_score |-> "HIGH_DIRECT" ]

OcrResult(ocr_text) ==
  [ text |-> ocr_text, extraction_method |-> "OCR",
    text_length |-> Len(ocr_text), confidence_score |-> "OCR_COMPLETED" ]

\* the last update without its text_length
DirectFailedResultStaleLength(direct_text) ==
  [ text |-> direct_text, extraction_method |-> "DIRECT_FAILED",
    text_length |-> 0, confidence_score |-> "N/A" ]

DirectFailedResult(direct_text) ==
  [ text |-> direct_text, extraction_method |-> "DIRECT_FAILED",
    text_length |-> Len(direct_text), confidence_score |-> "N/A" ]

\* ------------------------------------------------------------ validator.py
Digits == {"0", "1", "2", "3", "4", "5", "6", "7", "8", "9"}

DigitVal(c) ==
  CASE c = "0" -> 0 [] c = "1" -> 1 [] c = "2" -> 2 [] c = "3" -> 3
    [] c = "4" -> 4 [] c = "5" -> 5 [] c = "6" -> 6 [] c = "7" -> 7
    [] c = "8" -> 8 [] c = "9" -> 9

AllDigits(s) == s # <<>> /\ \A i \in 1..Len(s) : s[i] \in Digits

\* int(s) of a digit string
RECURSIVE NatOf(_)
NatOf(s) ==
  IF s = <<>> THEN 0
  ELSE 10 * NatOf(SubSeq(s, 1, Len(s) - 1)) + DigitVal(s[Len(s)])

\* s.split(sep)
RECURSIVE SplitOn(_, _)
SplitOn(s, sep) ==
  IF \A i \in 1..Len(s) : s[i] # sep THEN << s >>
  ELSE LET k == CHOOSE i \in 1..Len(s) :
                  s[i] = sep /\ \A j \in 1..(i-1) : s[j] # sep
       IN << SubSeq(s, 1, k - 1) >> \o SplitOn(SubSeq(s, k + 1, Len(s)), sep)

IsLeap(y) == (y % 4 = 0 /\ y % 100 # 0) \/ y % 400 = 0

DaysInMonth(y, m) ==
  IF m = 2 THEN (IF IsLeap(y) THEN 29 ELSE 28)
  ELSE IF m \in {4, 6, 9, 11} THEN 30 ELSE 31

\* the directives %d, %m and %Y of strptime on one field of the string
DayField(f) == AllDigits(f) /\ Len(f) <= 2 /\ NatOf(f) \in 1..31
MonthField(f) == AllDigits(f) /\ Len(f) <= 2 /\ NatOf(f) \in 1..12
YearField(f) == AllDigits(f) /\ Len(f) = 4

\* datetime(y, m, d), or None when the constructor raises ValueError
MakeDate(y, m, d) ==
  IF y >= 1 /\ d <= DaysInMonth(y, m) THEN [t |-> "date", y |-> y, m |-> m, d |-> d]
  ELSE None

\* datetime.strptime(date_str, fmt) for the three formats of parse_date;
\* None stands for ValueError
StrpTime(date_str, fmt) ==
  LET sep == IF fmt = "%Y-%m-%d" THEN "-" ELSE "/"
      f == SplitOn(date_str, sep)
  IN IF Len(f) # 3 THEN None
     ELSE CASE fmt = "%d/%m/%Y" ->
                 IF DayField(f[1]) /\ MonthField(f[2]) /\ YearField(f[3])
                 THEN MakeDate(NatOf(f[3]), NatOf(f[2]), NatOf(f[1])) ELSE None
            [] fmt = "%m/%d/%Y" ->
                 IF MonthField(f[1]) /\ DayField(f[2]) /\ YearField(f[3])
                 THEN MakeDate(NatOf(f[3]), NatOf(f[1]), NatOf(f[2])) ELSE None
            [] fmt = "%Y-%m-%d" ->
                 IF YearField(f[1]) /\ MonthField(f[2]) /\ DayField(f[3])
                 THEN MakeDate(NatOf(f[1]), NatOf(f[2]), NatOf(f[3])) ELSE None

DateFormats == << "%d/%m/%Y", "%m/%d/%Y", "%Y-%m-%d" >>

\* Validator.parse_date: the first format that parses, else None
parse_date(date_str) ==
  IF \E k \in 1..Len(DateFormats) : StrpTime(date_str, DateFormats[k]) # None
  THEN LET k == CHOOSE k \in 1..Len(DateFormats) :
                  /\ StrpTime(date_str, DateFormats[k]) # None
                  /\ \A j \in 1..(k-1) : StrpTime(date_str, DateFormats[j]) = None
       IN StrpTime(date_str, DateFormats[k])
  ELSE None

\* re.sub(r'[$,]', '', s)
RemoveCurrency(s) == SelectSeq(s, LAMBDA c : c \notin {"$", ","})

\* float(s) on strings of digits, sign, point and whitespace (no exponent,
\* underscore, inf or nan): None stands for ValueError, else the value is
\* (-1)^neg * mant / 10^scale
FloatOf(s) ==
  LET b == Strip(s)
      signed == b # <<>> /\ b[1] \in {"-", "+"}
      body == IF signed THEN Tail(b) ELSE b
      points == {i \in 1..Len(body) : body[i] = "."}
      digs == SelectSeq(body, LAMBDA c : c # ".")
  IN IF /\ Cardinality(points) <= 1
        /\ AllDigits(digs)
     THEN [ t |-> "float", neg |-> (signed /\ b[1] = "-"), mant |-> NatOf(digs),
            scale |-> IF points = {} THEN 0
                      ELSE Len(body) - (CHOOSE i \in points : TRUE) ]
     ELSE None

AmountNegativeOnly(v) == v.neg /\ v.mant # 0

\* total_amount <= 0
AmountNotPositive(v) == v.neg \/ v.mant = 0

\* dict.get(key) with the default None
Get(data, key) == IF key \in DOMAIN data THEN data[key] ELSE None

\* Python truthiness of an optional string or number
Falsy(v) ==
  \/ v.t = "none"
  \/ v.t = "str" /\ v.s = <<>>
  \/ v.t = "num" /\ v.v.mant = 0

\* the error strings of validate_invoice_data
Msg(text, arg) == [msg |-> text, arg |-> arg]

ErrSep == Msg("; ", None)

\* "; ".join(errors)
RECURSIVE JoinErrors(_)
JoinErrors(errors) ==
  IF errors = <<>> THEN <<>>
  ELSE IF Len(errors) = 1 THEN errors
  ELSE << errors[1], ErrSep >> \o JoinErrors(Tail(errors))

InvoiceNumberErrors(data) ==
  IF Falsy(Get(data, "invoice_number"))
  THEN << Msg("Invoice number is missing.", None) >> ELSE <<>>

DateErrors(data) ==
  LET date_str == Get(data, "date")
  IN IF Falsy(date_str) THEN << Msg("Date is missing.", None) >>
     ELSE IF parse_date(date_str.s) = None
          THEN << Msg("Date is not in a recognized format.", date_str) >>
          ELSE <<>>

VendorErrors(data) ==
  LET vendor_name == Get(data, "vendor")
  IN IF Falsy(vendor_name) THEN << Msg("Vendor name is missing.", None) >>
     ELSE IF Len(vendor_name.s) < 3
          THEN << Msg("Vendor name is too short (min 3 characters).", vendor_name) >>
          ELSE <<>>

\* the total amount block: the errors it appends, the value it stores in
\* data["total_amount"] (None when it stores nothing) and whether re.sub
\* raises TypeError on a value that is not a string
TotalAmountCheck(data) ==
  LET total_amount_str == Get(data, "total_amount")
      none == [errors |-> <<>>, store |-> None, raised |-> FALSE]
  IN IF Falsy(total_amount_str)
     THEN [none EXCEPT !.errors = << Msg("Total amount is missing.", None) >>]
     ELSE IF total_amount_str.t # "str" THEN [none EXCEPT !.raised = TRUE]
     ELSE LET total_amount == FloatOf(RemoveCurrency(total_amount_str.s))
          IN IF total_amount = None
             THEN [none EXCEPT !.errors =
                     << Msg("Total amount is not a valid number.", total_amount_str) >>]
             ELSE [ errors |-> IF AmountNotPositive(total_amount)
                               THEN << Msg("Total amount must be greater than zero.",
                                           total_amount_str) >>
                               ELSE <<>>,
                    store |-> Num(total_amount), raised |-> FALSE ]

FirstErrorOnly(e1, e2, e3, e4) ==
  IF e1 # <<>> THEN e1 ELSE IF e2 # <<>> THEN e2 ELSE IF e3 # <<>> THEN e3 ELSE e4

\* the errors list after the four blocks appended to it in turn
AccumulateErrors(e1, e2, e3, e4) == e1 \o e2 \o e3 \o e4

StatusAlwaysValid(errors) == "VALID"

\* "INVALID" if errors else "VALID"
StatusOf(errors) == IF errors # <<>> THEN "INVALID" ELSE "VALID"

\* Validator.validate_invoice_data: the dict it returns (data mutated in
\* place), or raised with data as it was when the exception left the call
validate_invoice_data(data) ==
  LET amount == TotalAmountCheck(data)
      errors == AccumulateErrors(InvoiceNumberErrors(data), DateErrors(data),
                                 VendorErrors(data), amount.errors)
      stored == IF amount.store = None THEN data
                ELSE ("total_amount" :> amount.store) @@ data
  IN IF amount.raised THEN [raised |-> TRUE, data |-> data]
     ELSE [ raised |-> FALSE,
            data |-> ("status" :> StatusOf(errors)) @@
                     ("errors" :> JoinErrors(errors)) @@ stored ]

\* Validator.get_validation_summary
get_validation_summary(original_data, validated_data) ==
  [ kind |-> "summary",
    invoice_number |-> Get(validated_data, "invoice_number"),
    date |-> Get(validated_data, "date"),
    vendor |-> Get(validated_data, "vendor"),
    total |-> Get(validated_data, "total_amount"),
    extraction_method |-> IF "extraction_method" \in DOMAIN validated_data
                          THEN validated_data["extraction_method"] ELSE "UNKNOWN",
    text_length |-> IF "text_length" \in DOMAIN validated_data
                    THEN validated_data["text_length"] ELSE 0,
    status |-> IF "status" \in DOMAIN validated_data
               THEN validated_data["status"] ELSE "UNKNOWN",
    issues |-> IF "errors" \in DOMAIN validated_data
               THEN validated_data["errors"] ELSE <<>> ]

\* ------------------------------------------------- main.py, one invoice
\* what Parser.parse_invoice_data can return on a text that is not blank:
\* every field is None or a stripped string
ParsedSamples ==
  { [ invoice_number |-> None, date |-> None, vendor |-> None,
      total_amount |-> None ],
    [ invoice_number |-> Str(<<"7">>),
      date |-> Str(<<"1","5","/","0","3","/","2","0","2","4">>),
      vendor |-> Str(<<"A","B","C">>), total_amount |-> Str(<<"1",",","2","5","0",".","5","0">>) ],
    [ invoice_number |-> Str(<<"7">>), date |-> Str(<<"2","0","2","4">>),
      vendor |-> Str(<<"A","B">>), total_amount |-> Str(<<"0">>) ] }

\* processed_data as process_single_invoice creates it
InitialProcessedData ==
  [ filename |-> "invoice.pdf", extraction_method |-> "UNKNOWN",
    text_length |-> 0, confidence_score |-> "N/A" ]

\* processed_data.update of the extraction details
WithExtractionDetails(data, result) ==
  [ extraction_method |-> result.extraction_method,
    text_length |-> result.text_length,
    confidence_score |-> result.confidence_score ] @@ data

NoTextRecordValidated(data) ==
  ("validation_details" :> [kind |-> "literal", s |-> "No text to parse"]) @@
    validate_invoice_data([ invoice_number |-> None, date |-> None,
                            vendor |-> None, total_amount |-> None ] @@ data).data

NoTextRecordWithoutDetails(data) ==
  [ invoice_number |-> None, date |-> None, vendor |-> None,
    total_amount |-> None, status |-> "INVALID",
    errors |-> << Msg("No text extracted from PDF.", None) >> ] @@ data

\* the record of the "No meaningful text" return
NoTextRecord(data) ==
  [ invoice_number |-> None, date |-> None, vendor |-> None,
    total_amount |-> None, status |-> "INVALID",
    errors |-> << Msg("No text extracted from PDF.", None) >>,
    validation_details |-> [kind |-> "literal", s |-> "No text to parse"] ] @@ data

ExtractionErrorRecordAsNoText(data) == NoTextRecord(data)

\* the record of the except branch around the extraction
ExtractionErrorRecord(data) ==
  [ invoice_number |-> None, date |-> None, vendor |-> None,
    total_amount |-> None, status |-> "INVALID",
    errors |-> << Msg("Extraction error: ", None) >>,
    validation_details |-> [kind |-> "literal", s |-> "Extraction failed"] ] @@ data

OtherSpecsIdle == UNCHANGED << validateVars, runVars, restVars >>

InitIdleNotify ==
  /\ email_config = [enabled |-> FALSE, threshold_invalid_percentage |-> 0]
  /\ credentials = FALSE /\ notify_data = <<>> /\ notify_pc = "idle"
  /\ send_email_calls = 0 /\ smtp_connections = 0

InitIdleParse ==
  /\ ptext = <<>> /\ regex_outcome = <<>> /\ heuristic_outcome = <<>>
  /\ parsed = <<>> /\ consulted = {} /\ parse_pc = "idle"

InitIdleGui ==
  /\ gui_files = <<>> /\ ocr_enabled_var = FALSE /\ start_button = "normal"
  /\ threads = <<>> /\ after_handled = 0
  /\ progress_bar = [maximum |-> 100, value |-> 0]
  /\ progress_label = [counts |-> <<0, 0>>, message |-> ""]
  /\ dialog = "" /\ completions = 0

InitIdleRest == InitIdleNotify /\ InitIdleParse /\ InitIdleGui

InitIdleValidate ==
  /\ vinput = <<>> /\ vdata = <<>> /\ vpc = "idle" /\ vsummary = <<>>

InitIdleRun ==
  /\ config = [ocr_enabled |-> FALSE] /\ run_pc = "idle" /\ invoice_files = <<>>
  /\ use_ocr = FALSE /\ progress = <<>> /\ processed_results = <<>>
  /\ reported = <<>> /\ runs = 0 /\ num_threads = None

InitIdleFile ==
  /\ config_ocr_enabled = FALSE /\ ocr_retries = 0 /\ pdf_structures = FALSE
  /\ npages = 0 /\ pc = "idle" /\ ocr_enabled = FALSE /\ reader = FALSE
  /\ page = 0 /\ full_text = <<>> /\ attempt = 0 /\ page_text = <<>>
  /\ full_ocr_text = <<>> /\ extraction_result = EmptyExtractionResult
  /\ extract_outcome = "none" /\ processed_data = InitialProcessedData
  /\ page_returns = <<>> /\ ocr_calls = 0 /\ ocr_pages = <<>>
  /\ ocr_yielded = FALSE /\ reader_inits = 0 /\ attempt_returned = FALSE

\* process_single_invoice is entered on one PDF with one configuration
Init ==
  /\ config_ocr_enabled \in BOOLEAN
  /\ ocr_retries \in 0..MaxRetries
  /\ pdf_structures \in BOOLEAN
  /\ npages \in 0..MaxPages
  /\ pc = "start"
  /\ ocr_enabled = FALSE /\ reader = FALSE
  /\ page = 0 /\ full_text = <<>> /\ attempt = 0 /\ page_text = <<>>
  /\ full_ocr_text = <<>> /\ extraction_result = EmptyExtractionResult
  /\ extract_outcome = "none" /\ processed_data = InitialProcessedData
  /\ page_returns = <<>> /\ ocr_calls = 0 /\ ocr_pages = <<>>
  /\ ocr_yielded = FALSE /\ reader_inits = 0 /\ attempt_returned = FALSE
  /\ InitIdleValidate /\ InitIdleRun /\ InitIdleRest

\* Extractor.__init__: _initialize_easyocr, and with it easyocr.Reader(...),
\* is called when config['ocr']['enabled'] is set
EngineInits(enabled) == IF enabled THEN 1 ELSE 0

\* Extractor.__init__ with _initialize_easyocr: easyocr.Reader(...) returns
\* or raises
Extractor_init ==
  /\ pc = "start"
  /\ \E reader_ok \in BOOLEAN :
       /\ reader' = (config_ocr_enabled /\ reader_ok)
       /\ ocr_enabled' = (config_ocr_enabled /\ reader_ok)
  /\ reader_inits' = EngineInits(config_ocr_enabled)
  /\ pc' = "direct_open"
  /\ UNCHANGED << config_ocr_enabled, ocr_retries, pdf_structures, npages, page,
                  full_text, attempt, page_text, full_ocr_text,
                  extraction_result, extract_outcome, processed_data,
                  page_returns, ocr_calls, ocr_pages, ocr_yielded,
                  attempt_returned >>
  /\ OtherSpecsIdle

\* _extract_text_with_pdfplumber: pdfplumber.open(pdf_path) returns
PdfplumberOpen ==
  /\ pc = "direct_open"
  /\ page' = 1
  /\ full_text' = <<>>
  /\ pc' = IF npages = 0 THEN "decide" ELSE "direct_page"
  /\ UNCHANGED << config_ocr_enabled, ocr_retries, pdf_structures, npages,
                  ocr_enabled, reader, attempt, page_text, full_ocr_text,
                  extraction_result, extract_outcome, processed_data,
                  page_returns, ocr_calls, ocr_pages, ocr_yielded, reader_inits,
                  attempt_returned >>
  /\ OtherSpecsIdle

\* _extract_text_with_pdfplumber: full_text += page.extract_text() or ""
PageExtractText ==
  /\ pc = "direct_page"
  /\ \E r \in PageTexts :
       /\ full_text' = full_text \o OrEmpty(r)
       /\ page_returns' = Append(page_returns, r)
  /\ page' = page + 1
  /\ pc' = IF page = npages THEN "decide" ELSE "direct_page"
  /\ UNCHANGED << config_ocr_enabled, ocr_retries, pdf_structures, npages,
                  ocr_enabled, reader, attempt, page_text, full_ocr_text,
                  extraction_result, extract_outcome, processed_data,
                  ocr_calls, ocr_pages, ocr_yielded, reader_inits, attempt_returned >>
  /\ OtherSpecsIdle

\* _extract_text_with_pdfplumber: pdfplumber.open or page.extract_text
\* raises.  The first except clause names pdfplumber.pdf_structures: when the
\* installed pdfplumber has no such attribute, matching the exception raises
\* AttributeError, which leaves extract_text_from_pdf and is caught by
\* process_single_invoice; otherwise the exception is logged and the text so
\* far is returned
PdfplumberRaises ==
  /\ pc \in {"direct_open", "direct_page"}
  /\ IF pdf_structures
     THEN /\ pc' = "decide"
          /\ UNCHANGED << extract_outcome, processed_data >>
     ELSE /\ pc' = "done"
          /\ extract_outcome' = "raised"
          /\ processed_data' = ExtractionErrorRecord(processed_data)
  /\ UNCHANGED << config_ocr_enabled, ocr_retries, pdf_structures, npages,
                  ocr_enabled, reader, page, full_text, attempt, page_text,
                  full_ocr_text, extraction_result, page_returns, ocr_calls,
                  ocr_pages, ocr_yielded, reader_inits,
                  attempt_returned >>
  /\ OtherSpecsIdle

\* extract_text_from_pdf after the direct extraction: accept the direct text,
\* or enter _extract_text_with_ocr, or give up when OCR is disabled
DirectDecision ==
  /\ pc = "decide"
  /\ IF WordCountSufficient(full_text)
     THEN /\ extraction_result' = DirectResult(full_text)
          /\ extract_outcome' = "returned"
          /\ pc' = "extracted"
          /\ UNCHANGED full_ocr_text
     ELSE IF ocr_enabled
          THEN /\ full_ocr_text' = <<>>
               /\ pc' = IF ~ocr_enabled \/ ~reader THEN "ocr_decide" ELSE "ocr_open"
               /\ UNCHANGED << extraction_result, extract_outcome >>
          ELSE /\ extraction_result' = DirectFailedResult(full_text)
               /\ extract_outcome' = "returned"
               /\ pc' = "extracted"
               /\ UNCHANGED full_ocr_text
  /\ UNCHANGED << config_ocr_enabled, ocr_retries, pdf_structures, npages,
                  ocr_enabled, reader, page, full_text, attempt, page_text,
                  processed_data, page_returns, ocr_calls, ocr_pages,
                  ocr_yielded, reader_inits,
                  attempt_returned >>
  /\ OtherSpecsIdle

\* _extract_text_with_ocr: pdfplumber.open(pdf_path) returns
OcrOpen ==
  /\ pc = "ocr_open"
  /\ page' = 1
  /\ pc' = IF npages = 0 THEN "ocr_decide" ELSE "ocr_render"
  /\ UNCHANGED << config_ocr_enabled, ocr_retries, pdf_structures, npages,
                  ocr_enabled, reader, full_text, attempt, page_text,
                  full_ocr_text, extraction_result, extract_outcome,
                  processed_data, page_returns, ocr_calls, ocr_pages,
                  ocr_yielded, reader_inits,
                  attempt_returned >>
  /\ OtherSpecsIdle

\* _extract_text_with_ocr: page.to_image(resolution=300) and np.array return;
\* the retry loop of the page starts
OcrRender ==
  /\ pc = "ocr_render"
  /\ page_text' = <<>>
  /\ attempt' = 0
  /\ attempt_returned' = FALSE
  /\ pc' = "ocr_attempt"
  /\ UNCHANGED << config_ocr_enabled, ocr_retries, pdf_structures, npages,
                  ocr_enabled, reader, page, full_text, full_ocr_text,
                  extraction_result, extract_outcome, processed_data,
                  page_returns, ocr_calls, ocr_pages, ocr_yielded,
                  reader_inits >>
  /\ OtherSpecsIdle

\* _extract_text_with_ocr: pdfplumber.open, page.to_image or np.array raises;
\* the outer except logs it and the text of the pages done so far is returned
OcrRaises ==
  /\ pc \in {"ocr_open", "ocr_render"}
  /\ pc' = "ocr_decide"
  /\ UNCHANGED << config_ocr_enabled, ocr_retries, pdf_structures, npages,
                  ocr_enabled, reader, page, full_text, attempt, page_text,
                  full_ocr_text, extraction_result, extract_outcome,
                  processed_data, page_returns, ocr_calls, ocr_pages,
                  ocr_yielded, reader_inits,
                  attempt_returned >>
  /\ OtherSpecsIdle

\* the text one readtext result leaves in page_text
PageTextAfter(old, r) ==
  IF r.kind = "ok" /\ r.texts # <<>> THEN JoinNL(r.texts) ELSE old

\* the retry loop left as soon as a call raises
AttemptSucceededOrRaised(r) ==
  r.kind = "raise" \/ (r.kind = "ok" /\ r.texts # <<>> /\ Strip(JoinNL(r.texts)) # <<>>)

\* the break of the retry loop: results and page_text.strip() are truthy
AttemptSucceeded(r) ==
  r.kind = "ok" /\ r.texts # <<>> /\ Strip(JoinNL(r.texts)) # <<>>

\* the retry loop without its break
RetryLoopDoneNoBreak(r, n, retries) == n >= retries

\* the retry loop leaves the page: break, or range(ocr_retries + 1) exhausted
RetryLoopDone(r, n, retries) == AttemptSucceeded(r) \/ n >= retries

\* _extract_text_with_ocr: one iteration of the retry loop, one call of
\* reader.readtext; when the loop ends, full_ocr_text += page_text + "\n\n"
OcrAttempt ==
  /\ pc = "ocr_attempt"
  /\ \E r \in OcrResults :
       LET text == PageTextAfter(page_text, r)
       IN /\ page_text' = text
          /\ ocr_calls' = ocr_calls + 1
          /\ attempt_returned' = (attempt_returned \/ r.kind = "ok")
          /\ ocr_yielded' = (ocr_yielded \/
                               (r.kind = "ok" /\ ~IsBlank(JoinNL(r.texts))))
          /\ IF RetryLoopDone(r, attempt, ocr_retries)
             THEN /\ full_ocr_text' = full_ocr_text \o text \o <<"\n", "\n">>
                  /\ ocr_pages' = Append(ocr_pages, text)
                  /\ page' = page + 1
                  /\ pc' = IF page = npages THEN "ocr_decide" ELSE "ocr_render"
                  /\ UNCHANGED attempt
             ELSE /\ attempt' = attempt + 1
                  /\ UNCHANGED << full_ocr_text, ocr_pages, page, pc >>
  /\ UNCHANGED << config_ocr_enabled, ocr_retries, pdf_structures, npages,
                  ocr_enabled, reader, full_text, extraction_result,
                  extract_outcome, processed_data, page_returns,
                  reader_inits >>
  /\ OtherSpecsIdle

\* extract_text_from_pdf after _extract_text_with_ocr returned
OcrDecision ==
  /\ pc = "ocr_decide"
  /\ extraction_result' = IF OcrTextAccepted(full_ocr_text)
                          THEN OcrResult(full_ocr_text)
                          ELSE DirectFailedResult(full_text)
  /\ extract_outcome' = "returned"
  /\ pc' = "extracted"
  /\ UNCHANGED << config_ocr_enabled, ocr_retries, pdf_structures, npages,
                  ocr_enabled, reader, page, full_text, attempt, page_text,
                  full_ocr_text, processed_data, page_returns, ocr_calls,
                  ocr_pages, ocr_yielded, reader_inits,
                  attempt_returned >>
  /\ OtherSpecsIdle

\* process_single_invoice: the extraction returned a text that is blank
ProcessNoText ==
  /\ pc = "extracted"
  /\ Strip(extraction_result.text) = <<>>
  /\ processed_data' =
       NoTextRecord(WithExtractionDetails(processed_data, extraction_result))
  /\ pc' = "done"
  /\ UNCHANGED << config_ocr_enabled, ocr_retries, pdf_structures, npages,
                  ocr_enabled, reader, page, full_text, attempt, page_text,
                  full_ocr_text, extraction_result, extract_outcome,
                  page_returns, ocr_calls, ocr_pages, ocr_yielded, reader_inits,
                  attempt_returned >>
  /\ OtherSpecsIdle

\* process_single_invoice: parse, merge the extraction details, validate,
\* add the summary
ParseAndValidate ==
  /\ pc = "extracted"
  /\ Strip(extraction_result.text) # <<>>
  /\ \E parsed_data \in ParsedSamples :
       LET merged == WithExtractionDetails(processed_data, extraction_result)
                       @@ parsed_data
           validated == validate_invoice_data(merged).data
       IN processed_data' =
            ("validation_details" :> get_validation_summary(validated, validated))
              @@ validated
  /\ pc' = "done"
  /\ UNCHANGED << config_ocr_enabled, ocr_retries, pdf_structures, npages,
                  ocr_enabled, reader, page, full_text, attempt, page_text,
                  full_ocr_text, extraction_result, extract_outcome,
                  page_returns, ocr_calls, ocr_pages, ocr_yielded, reader_inits,
                  attempt_returned >>
  /\ OtherSpecsIdle

Next ==
  \/ Extractor_init
  \/ PdfplumberOpen
  \/ PageExtractText
  \/ PdfplumberRaises
  \/ DirectDecision
  \/ OcrOpen
  \/ OcrRender
  \/ OcrRaises
  \/ OcrAttempt
  \/ OcrDecision
  \/ ProcessNoText
  \/ ParseAndValidate

Spec == Init /\ [][Next]_vars

\* ------------------------------------------------ properties of Spec
\* the per-page direct texts concatenated, a page without text counting as ""
RECURSIVE ConcatPages(_)
ConcatPages(returns) ==
  IF returns = <<>> THEN <<>>
  ELSE (IF Head(returns).t = "str" THEN Head(returns).s ELSE <<>>)
         \o ConcatPages(Tail(returns))

\* the per-page OCR texts, each followed by a blank line
RECURSIVE ConcatOcrPages(_)
ConcatOcrPages(pages) ==
  IF pages = <<>> THEN <<>>
  ELSE Head(pages) \o <<"\n", "\n">> \o ConcatOcrPages(Tail(pages))

\* C1: when the direct extraction of a PDF yields at least 50 words,
\* extract_text_from_pdf returns method DIRECT, confidence HIGH_DIRECT and the
\* concatenation of the per-page direct texts, and readtext was never called
C1_DirectAccepted ==
  (extract_outcome = "returned" /\ WordCount(ConcatPages(page_returns)) >= MinWords)
    => /\ extraction_result.extraction_method = "DIRECT"
       /\ extraction_result.confidence_score = "HIGH_DIRECT"
       /\ extraction_result.text = ConcatPages(page_returns)
       /\ ocr_calls = 0

\* a two-page PDF whose pages have 25 words each, the second starting with a
\* space (50 words together), was accepted as DIRECT
C1_Witness ==
  /\ extract_outcome = "returned"
  /\ Len(page_returns) = 2
  /\ WordCount(ConcatPages(<< page_returns[1] >>)) < MinWords
  /\ WordCount(ConcatPages(page_returns)) = MinWords
  /\ extraction_result.extraction_method = "DIRECT"

C3_NeverRaises == extract_outcome # "raised"

InvoiceSamples == { None, Str(<<>>), Str(<<"7">>) }

\* the string a b c with the separator sep between the parts
DateString(a, sep, b, c) == a \o << sep >> \o b \o << sep >> \o c

DateSamples ==
  { None, Str(<<>>), Str(<<"x">>), Str(<<"2","0","2","4">>),
    Str(DateString(<<"1","3">>, "/", <<"0","2">>, <<"2","0","2","4">>)),
    Str(DateString(<<"0","2">>, "/", <<"1","3">>, <<"2","0","2","4">>)),
    Str(DateString(<<"3">>, "/", <<"4">>, <<"2","0","2","4">>)),
    Str(DateString(<<"1","3">>, "/", <<"1","3">>, <<"2","0","2","4">>)),
    Str(DateString(<<"2","9">>, "/", <<"0","2">>, <<"2","0","2","4">>)),
    Str(DateString(<<"2","9">>, "/", <<"0","2">>, <<"2","0","2","3">>)),
    Str(DateString(<<"3","1">>, "/", <<"0","4">>, <<"2","0","2","4">>)),
    Str(DateString(<<"1","3">>, "/", <<"0","2">>, <<"2","4">>)),
    Str(DateString(<<"2","0","2","4">>, "-", <<"0","2">>, <<"1","3">>)),
    Str(DateString(<<"2","0","2","4">>, "/", <<"0","2">>, <<"1","3">>)),
    Str(DateString(<<"1","3">>, "-", <<"0","2">>, <<"2","0","2","4">>)),
    Str(DateString(<<"0","0">>, "/", <<"0","2">>, <<"2","0","2","4">>)) }

VendorSamples == { None, Str(<<>>), Str(<<"A","B">>), Str(<<"A","B","C">>) }

AmountChars == { "$", ",", "-", ".", "0", "5", "x" }

\* None, every string over AmountChars up to the bound, and two values that
\* are numbers already
AmountSamples ==
  { None, Num([t |-> "float", neg |-> FALSE, mant |-> 0, scale |-> 0]),
    Num([t |-> "float", neg |-> FALSE, mant |-> 5, scale |-> 0]) }
  \cup { Str(s) : s \in UNION { [1..k -> AmountChars] : k \in 0..MaxAmountLen } }

InitValidate ==
  /\ vinput \in [ invoice_number : InvoiceSamples, date : DateSamples,
                  vendor : VendorSamples, total_amount : AmountSamples ]
  /\ vdata = vinput
  /\ vpc = "call"
  /\ vsummary = <<>>
  /\ InitIdleFile /\ InitIdleRun /\ InitIdleRest

\* Validator.validate_invoice_data(data) returns or raises
Validate ==
  /\ vpc = "call"
  /\ LET r == validate_invoice_data(vdata)
     IN /\ vdata' = r.data
        /\ vpc' = IF r.raised THEN "raised" ELSE "returned"
  /\ UNCHANGED << vinput, vsummary, fileVars, runVars, restVars >>

\* Validator.get_validation_summary(parsed_data, validated_data), both the
\* same dict as in process_single_invoice
Summarise ==
  /\ vpc = "returned"
  /\ vsummary' = get_validation_summary(vdata, vdata)
  /\ vpc' = "summarised"
  /\ UNCHANGED << vinput, vdata, fileVars, runVars, restVars >>

NextValidate == Validate \/ Summarise

SpecValidate == InitValidate /\ [][NextValidate]_vars

\* --------------------------------------- properties of SpecValidate
ValidateReturned == vpc \in {"returned", "summarised"}

Absent(v) == v.t = "none" \/ (v.t = "str" /\ v.s = <<>>)

\* the field an error string is about
FieldOfMsg(m) ==
  CASE m = "Invoice number is missing." -> "invoice_number"
    [] m \in {"Date is missing.", "Date is not in a recognized format."} -> "date"
    [] m \in {"Vendor name is missing.",
              "Vendor name is too short (min 3 characters)."} -> "vendor"
    [] m \in {"Total amount is missing.", "Total amount is not a valid number.",
              "Total amount must be greater than zero."} -> "total_amount"
    [] OTHER -> "separator"

\* the fields of the error strings of a joined errors value, in order
ErrorFields(joined) ==
  [i \in 1..((Len(joined) + 1) \div 2) |-> FieldOfMsg(joined[2*i - 1].msg)]

\* the value of an amount, None when it has none
AmountValue(v) ==
  IF v.t = "num" THEN v.v
  ELSE IF v.t = "str" THEN FloatOf(RemoveCurrency(v.s)) ELSE None

\* the rule of each field, stated on the input
ViolatesRule(data, field) ==
  LET v == data[field]
  IN CASE field = "invoice_number" -> Absent(v)
       [] field = "date" ->
            Absent(v) \/ \A k \in 1..Len(DateFormats) : StrpTime(v.s, DateFormats[k]) = None
       [] field = "vendor" -> Absent(v) \/ Len(v.s) < 3
       [] field = "total_amount" ->
            \/ Absent(v)
            \/ AmountValue(v) = None
            \/ AmountValue(v).neg
            \/ AmountValue(v).mant = 0

FieldOrder == << "invoice_number", "date", "vendor", "total_amount" >>

\* C8: after validate_invoice_data returned, status is set, and it is INVALID
\* if and only if errors is not empty, VALID otherwise
C8_StatusIffErrors ==
  ValidateReturned
    => /\ "status" \in DOMAIN vdata
       /\ "errors" \in DOMAIN vdata
       /\ vdata["status"] \in {"VALID", "INVALID"}
       /\ (vdata["status"] = "INVALID") <=> (vdata["errors"] # <<>>)
       /\ (vdata["status"] = "INVALID") <=>
            (\E k \in 1..4 : ViolatesRule(vinput, FieldOrder[k]))

\* a record with two errors got INVALID
C8_Witness ==
  /\ ValidateReturned
  /\ vdata["status"] = "INVALID"
  /\ Len(vdata["errors"]) = 3

\* C9: the errors hold one error per field that violates its own rule,
\* whatever the other fields do, in the order invoice number, date, vendor,
\* total amount
C9_AllRulesInOrder ==
  ValidateReturned
    => /\ ErrorFields(vdata["errors"]) =
            SelectSeq(FieldOrder, LAMBDA f : ViolatesRule(vinput, f))
       /\ \A i \in 1..Len(vdata["errors"]) :
            (i % 2 = 0) <=> (vdata["errors"][i] = ErrSep)

\* all four fields violate their rules and all four errors are there
C9_Witness ==
  /\ ValidateReturned
  /\ ErrorFields(vdata["errors"]) = FieldOrder
  /\ vinput.date.t = "str" /\ vinput.date.s # <<>>
  /\ vinput.vendor.t = "str" /\ vinput.vendor.s # <<>>
  /\ vinput.total_amount.t = "str" /\ vinput.total_amount.s # <<>>

\* the error strings about the total amount in a joined errors value
AmountMessages(joined) ==
  { joined[i].msg : i \in { j \in 1..Len(joined) :
                              FieldOfMsg(joined[j].msg) = "total_amount" } }

Batches == UNION { [1..n -> {"good", "throws"}] : n \in 0..MaxFiles }

\* one call of update_progress_callback
ProgressCall(current, total, message) ==
  [current |-> current, total |-> total, message |-> message]

\* the names bound in the namespace of main.py by its import statements and
\* definitions that run_bot_logic looks up
MainGlobals ==
  { "logging", "ThreadPoolExecutor", "as_completed", "Reporter",
    "process_single_invoice" }

\* the caller holds one config dict, as main() does for partial(run_bot_logic)
InitRun ==
  /\ config \in [ocr_enabled : BOOLEAN]
  /\ run_pc = "idle"
  /\ invoice_files = <<>>
  /\ use_ocr = FALSE
  /\ progress = <<>>
  /\ processed_results = <<>>
  /\ reported = <<>>
  /\ runs = 0
  /\ num_threads = None
  /\ InitIdleFile /\ InitIdleValidate /\ InitIdleRest

RunConfigDeepCopy(cfg, ocr) == cfg

\* run_config = config.copy(); run_config['ocr']['enabled'] = use_ocr: the
\* copy is shallow, both dicts hold the same 'ocr' dict, so the assignment
\* shows in the caller's config
RunConfigAssign(cfg, ocr) == [cfg EXCEPT !.ocr_enabled = ocr]

\* run_bot_logic is called: the start callback and the run configuration
RunStart ==
  /\ run_pc \in {"idle", "returned", "raised"}
  /\ runs < MaxRuns
  /\ \E files \in Batches, ocr \in BOOLEAN :
       /\ invoice_files' = files
       /\ use_ocr' = ocr
       /\ config' = RunConfigAssign(config, ocr)
  /\ progress' = << ProgressCall(0, 0, "Starting processing...") >>
  /\ processed_results' = <<>>
  /\ reported' = <<>>
  /\ runs' = runs + 1
  /\ num_threads' = None
  /\ run_pc' = "started"
  /\ UNCHANGED << fileVars, validateVars, restVars >>

\* run_bot_logic: total_pdfs == 0, the "No PDF invoices selected" return
RunEmpty ==
  /\ run_pc = "started"
  /\ Len(invoice_files) = 0
  /\ progress' = Append(progress,
                        ProgressCall(0, 0, "No PDF invoices selected. Finished."))
  /\ run_pc' = "returned"
  /\ UNCHANGED << config, invoice_files, use_ocr, processed_results, reported,
                  runs, num_threads, fileVars, validateVars, restVars >>

\* run_bot_logic on a batch that is not empty: processed_results = [], then
\* min(cpu_count(), 4) looks up the name cpu_count, which main.py neither
\* imports nor defines: NameError leaves run_bot_logic before the worker
\* pool, the reporter and the final callback
RunNameError ==
  /\ run_pc = "started"
  /\ Len(invoice_files) > 0
  /\ "cpu_count" \notin MainGlobals
  /\ processed_results' = <<>>
  /\ run_pc' = "raised"
  /\ UNCHANGED << config, invoice_files, use_ocr, progress, reported, runs,
                  num_threads, fileVars, validateVars, restVars >>

NextRun == RunStart \/ RunEmpty \/ RunNameError

SpecRun == InitRun /\ [][NextRun]_vars

\* --------------------------------------------- properties of SpecRun
RunEnded == run_pc \in {"returned", "raised"}

\* the files of the batch whose pipeline returns a record
GoodFiles == { i \in 1..Len(invoice_files) : invoice_files[i] = "good" }

\* C5: when a run over a batch ends, the list handed to the reporter holds
\* exactly one record for every file whose pipeline returned, and no file
\* has more than one record
C5_OneRecordPerReturnedFile ==
  (RunEnded /\ Len(invoice_files) >= 1)
    => /\ Len(reported) = 1
       /\ { reported[1][k] : k \in 1..Len(reported[1]) } = GoodFiles
       /\ Len(reported[1]) = Cardinality(GoodFiles)

\* C6: a run over a batch that is not empty ends by returning, after it
\* called the report generation and made the final callback (total, total)
C6_RunCompletes ==
  (RunEnded /\ Len(invoice_files) >= 1)
    => /\ run_pc = "returned"
       /\ reported # <<>>
       /\ progress[Len(progress)].current = Len(invoice_files)
       /\ progress[Len(progress)].total = Len(invoice_files)

\* C7: for a batch of N >= 1 files the callback is called with (0, 0), then
\* with (k, N) after the k-th file, and at the end with (N, N)
C7_ProgressSequence ==
  (RunEnded /\ Len(invoice_files) >= 1)
    => LET N == Len(invoice_files)
       IN /\ Len(progress) = N + 2
          /\ progress[1].current = 0 /\ progress[1].total = 0
          /\ \A k \in 1..N :
               progress[k + 1].current = k /\ progress[k + 1].total = N
          /\ progress[N + 2].current = N /\ progress[N + 2].total = N

\* ------------------------------------ further properties of SpecValidate
\* C11: validate_invoice_data never raises, whatever the four fields hold
C11_ValidateNeverRaises == vpc # "raised"

\* C12: total_amount is replaced by its numeric value exactly when the amount
\* passes validation; when an amount error is recorded it keeps its input
\* value
C12_StoredOnlyWhenValid ==
  ValidateReturned
    => IF AmountMessages(vdata["errors"]) # {}
       THEN vdata["total_amount"] = vinput.total_amount
       ELSE vdata["total_amount"] = Num(AmountValue(vinput.total_amount))

\* ------------------------------------------- further properties of Spec
RecordKeys ==
  { "filename", "extraction_method", "text_length", "confidence_score",
    "invoice_number", "date", "vendor", "total_amount", "status", "errors",
    "validation_details" }

\* process_single_invoice returned on the path of a blank extracted text
NoTextReturned ==
  pc = "done" /\ extract_outcome = "returned" /\ IsBlank(extraction_result.text)

MissingMessages ==
  << Msg("Invoice number is missing.", None), Msg("Date is missing.", None),
     Msg("Vendor name is missing.", None), Msg("Total amount is missing.", None) >>

\* C13 as stated: on an empty extracted text the record lists the four
\* missing-field messages as errors
C13_FourMissingMessages ==
  NoTextReturned
    => /\ processed_data["status"] = "INVALID"
       /\ processed_data["errors"] = JoinErrors(MissingMessages)

\* C13 amended: on an empty (or blank) extracted text the record has the four
\* fields absent, status INVALID, the single error "No text extracted from
\* PDF." and the details "No text to parse"
C13_NoTextRecord ==
  NoTextReturned
    => /\ \A k \in {"invoice_number", "date", "vendor", "total_amount"} :
            processed_data[k] = None
       /\ processed_data["status"] = "INVALID"
       /\ processed_data["errors"] = << Msg("No text extracted from PDF.", None) >>
       /\ processed_data["validation_details"] =
            [kind |-> "literal", s |-> "No text to parse"]

\* a PDF without any text, OCR tried and gave nothing: the text is empty
C13_Witness ==
  /\ NoTextReturned
  /\ extraction_result.text = <<>>
  /\ extraction_result.extraction_method = "DIRECT_FAILED"
  /\ ocr_calls > 0

\* C15: every record process_single_invoice returns, on the normal, the
\* empty-text and the extraction-error path, has exactly the eleven keys of
\* the report, with status VALID or INVALID
C15_RecordKeySet ==
  pc = "done"
    => /\ DOMAIN processed_data = RecordKeys
       /\ processed_data["status"] \in {"VALID", "INVALID"}

\* a record of the normal path that was validated as VALID
C15_Witness ==
  /\ pc = "done"
  /\ extract_outcome = "returned"
  /\ processed_data["validation_details"].kind = "summary"
  /\ processed_data["status"] = "VALID"


C18_RaisesRetried ==
  [][ /\ (pc = "ocr_attempt" /\ ~attempt_returned')
           => IF attempt < ocr_retries
              THEN /\ pc' = "ocr_attempt"
                   /\ attempt' = attempt + 1
                   /\ page' = page
                   /\ ocr_pages' = ocr_pages
              ELSE /\ ocr_pages' = Append(ocr_pages, <<>>)
                   /\ page' = page + 1
                   /\ pc' = IF page < npages THEN "ocr_render" ELSE "ocr_decide"
      /\ pc \in {"ocr_open", "ocr_render", "ocr_attempt"}
           => full_ocr_text' = ConcatOcrPages(ocr_pages') ]_vars

\* both attempts on the first page of a two-page PDF raised, and the loop is
\* about to render the second page
C18_Witness ==
  /\ pc = "ocr_render"
  /\ ocr_retries = 1
  /\ npages = 2
  /\ page = 2
  /\ ~attempt_returned
  /\ ocr_calls = 2
  /\ ocr_pages = << <<>> >>

MantissaBits == 53

\* A positive float is [m |-> bits, e |-> exponent]: m is a sequence of
\* MantissaBits bits, most significant first and starting with 1, read as a
\* natural number M, and the value is M * 2^e.  0.0 has m = <<>>
FloatZero == [m |-> <<>>, e |-> 0]

RECURSIVE Pow2(_)
Pow2(n) == IF n = 0 THEN 1 ELSE 2 * Pow2(n - 1)

\* the binary digits of a natural number, <<>> for 0
RECURSIVE NatBits(_)
NatBits(n) == IF n = 0 THEN <<>> ELSE NatBits(n \div 2) \o << n % 2 >>

Zeros(n) == [i \in 1..n |-> 0]

\* bits + 1
RECURSIVE Incr(_)
Incr(bits) ==
  IF bits = <<>> THEN << 1 >>
  ELSE LET n == Len(bits)
       IN IF bits[n] = 0 THEN SubSeq(bits, 1, n - 1) \o << 1 >>
          ELSE Incr(SubSeq(bits, 1, n - 1)) \o << 0 >>

\* round-to-nearest, ties-to-even, of a bit string to MantissaBits bits:
\* the mantissa and the number of bits dropped
RoundNearestEven(bits) ==
  IF Len(bits) <= MantissaBits THEN [m |-> bits, dropped |-> 0]
  ELSE LET kept == SubSeq(bits, 1, MantissaBits)
           tail == SubSeq(bits, MantissaBits + 1, Len(bits))
           d    == Len(tail)
           up   == /\ tail[1] = 1
                   /\ \/ \E j \in 2..d : tail[j] = 1
                      \/ kept[MantissaBits] = 1
           k2   == Incr(kept)
       IN IF ~up THEN [m |-> kept, dropped |-> d]
          ELSE IF Len(k2) > MantissaBits
               THEN [m |-> SubSeq(k2, 1, MantissaBits), dropped |-> d + 1]
               ELSE [m |-> k2, dropped |-> d]

\* long division: the next count quotient bits of r / n, where r < n
RECURSIVE DivBits(_, _, _)
DivBits(r, n, count) ==
  IF count = 0 THEN <<>>
  ELSE LET b == IF 2 * r >= n THEN 1 ELSE 0
       IN << b >> \o DivBits(2 * r - b * n, n, count - 1)

\* the remainder left after those bits
RECURSIVE DivRem(_, _, _)
DivRem(r, n, count) ==
  IF count = 0 THEN r
  ELSE DivRem(2 * r - (IF 2 * r >= n THEN n ELSE 0), n, count - 1)

\* the least s with k * 2^s >= n, for 0 < k <= n
RECURSIVE NormShift(_, _)
NormShift(k, n) == IF k >= n THEN 0 ELSE 1 + NormShift(2 * k, n)

\* the float k / n of two ints with 0 <= k <= n, n > 0: the quotient to one
\* bit more than the mantissa, a sticky bit for the remainder, then rounded
FloatDiv(k, n) ==
  IF k = 0 THEN FloatZero
  ELSE LET s    == NormShift(k, n)
           r0   == k * Pow2(s) - n
           bits == << 1 >> \o DivBits(r0, n, MantissaBits)
                     \o << IF DivRem(r0, n, MantissaBits) = 0 THEN 0 ELSE 1 >>
           r    == RoundNearestEven(bits)
       IN [m |-> r.m, e |-> r.dropped - (MantissaBits + 1) - s]

\* the multiplication works on groups of LimbBits bits
LimbBits == 15

\* the natural number a bit string of at most LimbBits bits stands for
RECURSIVE BitsVal(_)
BitsVal(bits) ==
  IF bits = <<>> THEN 0
  ELSE 2 * BitsVal(SubSeq(bits, 1, Len(bits) - 1)) + bits[Len(bits)]

\* the w binary digits of v < 2^w
PadBits(v, w) == Zeros(w - Len(NatBits(v))) \o NatBits(v)

\* bits * c + carry, exactly, for 0 < c and carry < c
RECURSIVE MulCarry(_, _, _)
MulCarry(bits, c, carry) ==
  IF bits = <<>> THEN NatBits(carry)
  ELSE LET n == Len(bits)
           w == IF n < LimbBits THEN n ELSE LimbBits
           x == BitsVal(SubSeq(bits, n - w + 1, n)) * c + carry
       IN MulCarry(SubSeq(bits, 1, n - w), c, x \div Pow2(w))
            \o PadBits(x % Pow2(w), w)

\* the float f * c for an int c > 0: the exact product, rounded
FloatMul(f, c) ==
  IF f.m = <<>> THEN FloatZero
  ELSE LET r == RoundNearestEven(MulCarry(f.m, c, 0))
       IN [m |-> r.m, e |-> f.e + r.dropped]

\* a >= b for two bit strings without leading zeros
RECURSIVE BitsGeq(_, _)
BitsGeq(a, b) ==
  IF Len(a) # Len(b) THEN Len(a) > Len(b)
  ELSE IF a = <<>> THEN TRUE
  ELSE IF Head(a) # Head(b) THEN Head(a) > Head(b)
  ELSE BitsGeq(Tail(a), Tail(b))

\* f >= t for a float f and an int t >= 0
FloatGeqInt(f, t) ==
  IF t = 0 THEN TRUE
  ELSE IF f.m = <<>> THEN FALSE
  ELSE IF f.e >= 0 THEN BitsGeq(f.m \o Zeros(f.e), NatBits(t))
  ELSE BitsGeq(f.m, NatBits(t) \o Zeros(0 - f.e))

\* send_email_notification: (num_invalid / total_invoices) * 100
invalid_percentage(num_invalid, total_invoices) ==
  FloatMul(FloatDiv(num_invalid, total_invoices), 100)

\* send_email_notification: the INVALID records of the list
invalid_invoices(data) == SelectSeq(data, LAMBDA d : d.status = "INVALID")

\* send_email_notification: the test that guards _send_email
ThresholdReached(data, cfg) ==
  FloatGeqInt(invalid_percentage(Len(invalid_invoices(data)), Len(data)),
              cfg.threshold_invalid_percentage)


\* ----------------------------- one call of Reporter.send_email_notification
\* a list of n records of which k are INVALID, these first or last
StatusList(n, k, invalid_first) ==
  [ i \in 1..n |->
      [status |-> IF (invalid_first /\ i <= k) \/ (~invalid_first /\ i > n - k)
                  THEN "INVALID" ELSE "VALID"] ]

NotifyLists ==
  UNION { { StatusList(n, k, f) : k \in 0..n, f \in BOOLEAN } : n \in 0..MaxRecords }

\* config['email']['threshold_invalid_percentage']
Thresholds == { 0, 50, 58, 100 }

InitNotify ==
  /\ email_config \in [enabled : BOOLEAN, threshold_invalid_percentage : Thresholds]
  /\ credentials \in BOOLEAN
  /\ notify_data \in NotifyLists
  /\ notify_pc = "call"
  /\ send_email_calls = 0
  /\ smtp_connections = 0
  /\ InitIdleFile /\ InitIdleValidate /\ InitIdleRun /\ InitIdleParse
  /\ InitIdleGui

\* Reporter.send_email_notification(processed_data), with _send_email when
\* it is called: that returns before connecting when the sender, the password
\* or the recipient is not configured
send_email_notification ==
  /\ notify_pc = "call"
  /\ LET send == /\ email_config.enabled
                 /\ Len(notify_data) # 0
                 /\ ThresholdReached(notify_data, email_config)
     IN /\ send_email_calls' = IF send THEN 1 ELSE 0
        /\ smtp_connections' = IF send /\ credentials THEN 1 ELSE 0
  /\ notify_pc' = "returned"
  /\ UNCHANGED << email_config, credentials, notify_data, fileVars,
                  validateVars, runVars, parseVars, guiVars >>

NextNotify == send_email_notification

SpecNotify == InitNotify /\ [][NextNotify]_vars

\* the number of records of the list with status INVALID
NumInvalid == Cardinality({ i \in 1..Len(notify_data) : notify_data[i].status = "INVALID" })

\* C16: _send_email is called if and only if email is enabled, the list has
\* a record and 100 * invalid / total is at least the threshold
C16_SendIffThreshold ==
  notify_pc = "returned"
    => (send_email_calls = 1
          <=> /\ email_config.enabled
              /\ Len(notify_data) >= 1
              /\ 100 * NumInvalid >= email_config.threshold_invalid_percentage * Len(notify_data))


\* -------------------------------------------------------------- parser.py
\* character classes of the re module, on the characters the texts use
Upper ==
  { "A", "B", "C", "D", "E", "F", "G", "H", "I", "J", "K", "L", "M", "N", "O",
    "P", "Q", "R", "S", "T", "U", "V", "W", "X", "Y", "Z" }

Lower ==
  { "a", "b", "c", "d", "e", "f", "g", "h", "i", "j", "k", "l", "m", "n", "o",
    "p", "q", "r", "s", "t", "u", "v", "w", "x", "y", "z" }

\* the character at position i, "" outside the text
At(s, i) == IF i \in 1..Len(s) THEN s[i] ELSE ""

IsDigit(c) == c \in Digits
IsLetter(c) == c \in Upper \cup Lower
\* \w
IsWord(c) == IsDigit(c) \/ IsLetter(c) \/ c = "_"

\* \s on these characters
Spaces == {" ", "\n"}

\* the length of the longest run of characters of a class starting at i
RECURSIVE RunLen(_, _, _)
RunLen(s, i, class) ==
  IF i \in 1..Len(s) /\ s[i] \in class THEN 1 + RunLen(s, i + 1, class) ELSE 0

\* the largest element of a non-empty set of naturals
MaxOf(S) == CHOOSE x \in S : \A y \in S : y <= x

\* A match is [from, to]: the captured group is s[from..to-1] and the whole
\* match ends before position to.  NoMatch is a failed attempt.
NoMatch == [from |-> 0, to |-> 0]

\* (?:,[0-9]{3})* matched greedily from position j: the position after it
RECURSIVE ThousandsEnd(_, _)
ThousandsEnd(s, j) ==
  IF /\ At(s, j) = ","
     /\ IsDigit(At(s, j + 1)) /\ IsDigit(At(s, j + 2)) /\ IsDigit(At(s, j + 3))
  THEN ThousandsEnd(s, j + 4)
  ELSE j

\* (?:\.[0-9]{1,2})? matched greedily from position j
FractionEnd(s, j) ==
  IF At(s, j) = "." /\ IsDigit(At(s, j + 1))
  THEN IF IsDigit(At(s, j + 2)) THEN j + 3 ELSE j + 2
  ELSE j

\* ([0-9]{1,6}(?:,[0-9]{3})*(?:\.[0-9]{1,2})?) at position i: every part
\* after the first digit is optional and nothing follows the group, so the
\* greedy choice is the match
FigureAt(s, i) ==
  LET run == RunLen(s, i, Digits)
      d   == IF run > 6 THEN 6 ELSE run
  IN IF d = 0 THEN NoMatch
     ELSE [from |-> i, to |-> FractionEnd(s, ThousandsEnd(s, i + d))]

\* a one-character currency sign followed by the figure
SignedFigureAt(s, i, sign) ==
  IF At(s, i) = sign /\ FigureAt(s, i + 1) # NoMatch
  THEN FigureAt(s, i + 1) ELSE NoMatch

\* \$([\d,]+\.\d{1,2}) at position i: the run of digits and commas is as
\* long as a following point and digit allow
DollarDecimalAt(s, i) ==
  LET run  == RunLen(s, i + 1, Digits \cup {","})
      lens == { r \in 1..run :
                  At(s, i + 1 + r) = "." /\ IsDigit(At(s, i + 2 + r)) }
  IN IF At(s, i) # "$" \/ lens = {} THEN NoMatch
     ELSE LET j == i + 1 + MaxOf(lens)
          IN [from |-> i + 1,
              to |-> IF IsDigit(At(s, j + 2)) THEN j + 3 ELSE j + 2]

\* (\d{1,6}(?:,[0-9]{3})*\.\d{2}) at position i: the counts of digits and of
\* groups are the largest, digits first, after which a point and two digits
\* follow
BareDecimalAt(s, i) ==
  LET run == RunLen(s, i, Digits)
      ends(d) == { j \in (i + d)..ThousandsEnd(s, i + d) :
                     /\ (j - i - d) % 4 = 0
                     /\ At(s, j) = "."
                     /\ IsDigit(At(s, j + 1)) /\ IsDigit(At(s, j + 2)) }
      ds == { d \in 1..(IF run > 6 THEN 6 ELSE run) : ends(d) # {} }
  IN IF ds = {} THEN NoMatch
     ELSE [from |-> i, to |-> MaxOf(ends(MaxOf(ds))) + 3]

\* INR\s*(figure), ignoring case
InrFigureAt(s, i) ==
  LET j == i + 3 + RunLen(s, i + 3, Spaces)
  IN IF /\ At(s, i) \in {"I", "i"} /\ At(s, i + 1) \in {"N", "n"}
        /\ At(s, i + 2) \in {"R", "r"}
        /\ FigureAt(s, j) # NoMatch
     THEN FigureAt(s, j) ELSE NoMatch

\* _intelligent_amount_extraction: amount_patterns, in the order of the list
AmountPatternAt(p, s, i) ==
  CASE p = 1 -> DollarDecimalAt(s, i)
    [] p = 2 -> SignedFigureAt(s, i, "$")
    [] p = 3 -> BareDecimalAt(s, i)
    [] p = 4 -> SignedFigureAt(s, i, "€")
    [] p = 5 -> SignedFigureAt(s, i, "£")
    [] p = 6 -> InrFigureAt(s, i)

AmountPatternCount == 6

\* re.findall(pattern, text) for a pattern with one group: the groups of the
\* matches found scanning from position i, no two matches overlapping
RECURSIVE FindAllFrom(_, _, _)
FindAllFrom(p, s, i) ==
  IF i > Len(s) THEN <<>>
  ELSE LET m == AmountPatternAt(p, s, i)
       IN IF m = NoMatch THEN FindAllFrom(p, s, i + 1)
          ELSE << SubSeq(s, m.from, m.to - 1) >> \o FindAllFrom(p, s, m.to)

FindAll(p, s) == FindAllFrom(p, s, 1)


RECURSIVE Pow10(_)
Pow10(n) == IF n = 0 THEN 1 ELSE 10 * Pow10(n - 1)

\* a > b for two values of FloatOf that are not negative.  The figures of
\* the texts have at most two decimals and few digits, so their floats
\* compare as the decimals do
FloatGreater(a, b) == a.mant * Pow10(b.scale) > b.mant * Pow10(a.scale)

\* the (float_val, match.strip()) pairs one pattern appends to all_amounts:
\* a match whose float() raises ValueError, or is not > 0, appends nothing
RECURSIVE AmountPairs(_)
AmountPairs(matches) ==
  IF matches = <<>> THEN <<>>
  ELSE LET raw == Strip(Head(matches))
           float_val == FloatOf(RemoveCurrency(raw))
       IN (IF float_val # None /\ ~AmountNotPositive(float_val)
           THEN << [float_val |-> float_val, raw |-> raw] >> ELSE <<>>)
            \o AmountPairs(Tail(matches))

\* all_amounts after the loop over the patterns from pattern p on
RECURSIVE AllAmountsFrom(_, _)
AllAmountsFrom(p, text) ==
  IF p > AmountPatternCount THEN <<>>
  ELSE AmountPairs(FindAll(p, text)) \o AllAmountsFrom(p + 1, text)

\* list.sort(key=float_val, reverse=True): descending and stable, a pair
\* goes behind the pairs that are not smaller
RECURSIVE InsertDescending(_, _)
InsertDescending(sorted, x) ==
  IF sorted = <<>> THEN << x >>
  ELSE IF FloatGreater(x.float_val, Head(sorted).float_val)
       THEN << x >> \o sorted
       ELSE << Head(sorted) >> \o InsertDescending(Tail(sorted), x)

RECURSIVE SortDescending(_)
SortDescending(pairs) ==
  IF pairs = <<>> THEN <<>>
  ELSE InsertDescending(SortDescending(SubSeq(pairs, 1, Len(pairs) - 1)),
                        pairs[Len(pairs)])

\* the first pair found, whatever its value
FirstAmount(pairs) == pairs[1]

\* all_amounts.sort(...); all_amounts[0]
HighestAmount(pairs) == SortDescending(pairs)[1]

\* Parser._intelligent_amount_extraction(text)
intelligent_amount_extraction(text) ==
  LET all_amounts == AllAmountsFrom(1, text)
  IN IF all_amounts = <<>> THEN None ELSE Str(HighestAmount(all_amounts).raw)

\* ---- _intelligent_invoice_extraction
\* an upper-case letter with its lower-case letter
CasePairs ==
  { <<"A","a">>, <<"B","b">>, <<"C","c">>, <<"D","d">>, <<"E","e">>,
    <<"F","f">>, <<"G","g">>, <<"H","h">>, <<"I","i">>, <<"J","j">>,
    <<"K","k">>, <<"L","l">>, <<"M","m">>, <<"N","n">>, <<"O","o">>,
    <<"P","p">>, <<"Q","q">>, <<"R","r">>, <<"S","s">>, <<"T","t">>,
    <<"U","u">>, <<"V","v">>, <<"W","w">>, <<"X","x">>, <<"Y","y">>,
    <<"Z","z">> }

\* str.lower() of one character
LowerOf(c) ==
  IF c \in Upper THEN (CHOOSE pr \in CasePairs : pr[1] = c)[2] ELSE c

\* \b before position i
WordBoundary(s, i) == IsWord(At(s, i - 1)) # IsWord(At(s, i))

\* the keyword k, ignoring case, at position i
KeywordAt(s, i, k) == \A j \in 1..Len(k) : LowerOf(At(s, i + j - 1)) = k[j]

\* (?:inv|invoice|bill|order|ref), in the order of the alternation
InvoiceKeywords ==
  << <<"i","n","v">>, <<"i","n","v","o","i","c","e">>, <<"b","i","l","l">>,
     <<"o","r","d","e","r">>, <<"r","e","f">> >>

\* [^\w]* from position i: the length of the run
RECURSIVE NonWordRun(_, _)
NonWordRun(s, i) ==
  IF i \in 1..Len(s) /\ ~IsWord(s[i]) THEN 1 + NonWordRun(s, i + 1) ELSE 0

\* [A-Za-z0-9\-/]
TokenChars == Upper \cup Lower \cup Digits \cup {"-", "/"}

\* the first of a set of pairs of naturals in the order: first component
\* descending, then second component descending
FirstChoice(S) ==
  CHOOSE t \in S : \A u \in S : t[1] > u[1] \/ (t[1] = u[1] /\ t[2] >= u[2])

\* \b(?:inv|invoice|bill|order|ref)[^\w]*([A-Za-z0-9\-/]+) at position i:
\* the earliest keyword, then the longest run of non-word characters, that
\* leave a token character for the group
KeywordTokenAt(s, i) ==
  LET count == Len(InvoiceKeywords)
      after(q) == i + Len(InvoiceKeywords[q])
      choices ==
        IF ~WordBoundary(s, i) THEN {}
        ELSE UNION { { << count - q, n >> :
                         n \in { m \in 0..NonWordRun(s, after(q)) :
                                   At(s, after(q) + m) \in TokenChars } } :
                     q \in { k \in 1..count : KeywordAt(s, i, InvoiceKeywords[k]) } }
  IN IF choices = {} THEN NoMatch
     ELSE LET c == FirstChoice(choices)
              from == after(count - c[1]) + c[2]
          IN [from |-> from, to |-> from + RunLen(s, from, TokenChars)]

\* \b(\d{4,8})\b at position i
DigitsOnlyAt(s, i) ==
  LET run == RunLen(s, i, Digits)
      ds  == { d \in 4..8 : d <= run /\ WordBoundary(s, i + d) }
  IN IF ~WordBoundary(s, i) \/ ds = {} THEN NoMatch
     ELSE [from |-> i, to |-> i + MaxOf(ds)]

\* \b([A-Z]{2,4}[\-\s]?\d{3,6})\b at position i, ignoring case: most
\* letters first, then the separator taken if it can be, then most digits
LetterPrefixAt(s, i) ==
  LET digitsAt(j) ==
        { d \in 3..6 : d <= RunLen(s, j, Digits) /\ WordBoundary(s, j + d) }
      choices ==
        IF ~WordBoundary(s, i) THEN {}
        ELSE { c \in { a \in 2..4 : a <= RunLen(s, i, Upper \cup Lower) } \X (0..1) :
                 /\ c[2] = 1 => At(s, i + c[1]) \in {"-"} \cup Spaces
                 /\ digitsAt(i + c[1] + c[2]) # {} }
  IN IF choices = {} THEN NoMatch
     ELSE LET c == FirstChoice(choices)
              j == i + c[1] + c[2]
          IN [from |-> i, to |-> j + MaxOf(digitsAt(j))]

\* \d+ sep \d+ \b at position i, each run as long as what follows allows
NumberPairAt(s, i, sep) ==
  LET choices ==
        UNION { { << d, e >> :
                    e \in { n \in 1..RunLen(s, i + d + 1, Digits) :
                              WordBoundary(s, i + d + 1 + n) } } :
                d \in { n \in 1..RunLen(s, i, Digits) : At(s, i + n) = sep } }
  IN IF choices = {} THEN NoMatch
     ELSE LET c == FirstChoice(choices)
          IN [from |-> i, to |-> i + c[1] + 1 + c[2]]

\* \b(\d+\-\d+|\d+\/\d+)\b at position i: the dashed alternative first
DashedOrSlashedAt(s, i) ==
  IF ~WordBoundary(s, i) THEN NoMatch
  ELSE IF NumberPairAt(s, i, "-") # NoMatch THEN NumberPairAt(s, i, "-")
  ELSE NumberPairAt(s, i, "/")

\* _intelligent_invoice_extraction: patterns, in the order of the list
InvoicePatternAt(p, s, i) ==
  CASE p = 1 -> KeywordTokenAt(s, i)
    [] p = 2 -> DigitsOnlyAt(s, i)
    [] p = 3 -> LetterPrefixAt(s, i)
    [] p = 4 -> DashedOrSlashedAt(s, i)

InvoicePatternCount == 4

\* re.search(pattern, text): the match at the leftmost position that has one
RECURSIVE InvoiceSearchFrom(_, _, _)
InvoiceSearchFrom(p, s, i) ==
  IF i > Len(s) THEN NoMatch
  ELSE LET m == InvoicePatternAt(p, s, i)
       IN IF m # NoMatch THEN m ELSE InvoiceSearchFrom(p, s, i + 1)

\* match.group(1) of pattern p, None without a match
InvoiceGroup(p, text) ==
  LET m == InvoiceSearchFrom(p, text, 1)
  IN IF m = NoMatch THEN None ELSE Str(SubSeq(text, m.from, m.to - 1))

\* re.match(r'^\d{1,2}(\.\d{1,2})?$', candidate), for a candidate that does
\* not end with a newline
LooksLikeAmount(c) ==
  \E d \in 1..2 :
    /\ d <= RunLen(c, 1, Digits)
    /\ \/ Len(c) = d
       \/ \E f \in 1..2 :
            /\ At(c, d + 1) = "."
            /\ f <= RunLen(c, d + 2, Digits)
            /\ Len(c) = d + 1 + f

\* len(match.group(1).strip()) > 1, then len(candidate) >= 3 and the
\* candidate does not look like an amount
InvoiceAccepted(group) ==
  /\ Len(Strip(group)) > 1
  /\ Len(Strip(group)) >= 3
  /\ ~LooksLikeAmount(Strip(group))

\* the loop over the patterns from pattern p on
RECURSIVE InvoiceCascadeFrom(_, _)
InvoiceCascadeFrom(p, text) ==
  IF p > InvoicePatternCount THEN None
  ELSE LET g == InvoiceGroup(p, text)
       IN IF g # None /\ InvoiceAccepted(g.s) THEN Str(Strip(g.s))
          ELSE InvoiceCascadeFrom(p + 1, text)

\* Parser._intelligent_invoice_extraction(text)
intelligent_invoice_extraction(text) == InvoiceCascadeFrom(1, text)


\* ---- _find_pattern and parse_invoice_data
Fields == << "invoice_number", "date", "vendor", "total_amount" >>

\* What re.search(pattern, text) and match.group(group_index) do for a
\* configured pattern: no match; a match whose group is the string s; a
\* pattern without the group (IndexError); a group that took no part in the
\* match (None, whose strip() raises AttributeError); a pattern that does
\* not compile (re.error)
RegexOutcomes ==
  << [kind |-> "nomatch", s |-> <<>>],
     [kind |-> "group", s |-> <<" ", "R", "1">>],
     [kind |-> "nogroup", s |-> <<>>],
     [kind |-> "group", s |-> <<" ">>],
     [kind |-> "unset", s |-> <<>>],
     [kind |-> "error", s |-> <<>>] >>

\* Parser._find_pattern: the stripped group of a match, None in every other
\* case, the two except clauses included
find_pattern(outcome) ==
  IF outcome.kind = "group" THEN Str(Strip(outcome.s)) ELSE None

\* the heuristic result whatever the configured pattern found
HeuristicFirst(found, heuristic) == heuristic

\* parse_invoice_data for one field: the result of _find_pattern, replaced
\* by the result of the field's _intelligent_ method when it is falsy
RegexThenHeuristic(found, heuristic) ==
  IF Falsy(found) THEN heuristic ELSE found

\* the result of a field's _intelligent_ method on the text
HeuristicResult(f, text, others) ==
  CASE f = "invoice_number" -> intelligent_invoice_extraction(text)
    [] f = "date"           -> others.date
    [] f = "vendor"         -> others.vendor
    [] f = "total_amount"   -> intelligent_amount_extraction(text)

\* Parser.parse_invoice_data(text)
parse_invoice_data(text, outcomes, others) ==
  [ f \in { Fields[k] : k \in 1..Len(Fields) } |->
      RegexThenHeuristic(find_pattern(outcomes[f]),
                         HeuristicResult(f, text, others)) ]

\* ------------------------------- one call of Parser.parse_invoice_data
\* the words and figures the texts are made of
TextTokens ==
  << <<"$","5","0">>, <<"$","1",",","2","0","0",".","0","0">>,
     <<"$","7","5",".","2","5">>, <<"$","0">>, <<"R","e","f">>,
     <<"1","2","3","4">>, <<"A","B","-","1","2","3">> >>

\* the tokens of a sequence of token numbers, joined by single spaces
RECURSIVE JoinTokens(_)
JoinTokens(ks) ==
  IF ks = <<>> THEN <<>>
  ELSE IF Len(ks) = 1 THEN TextTokens[ks[1]]
  ELSE TextTokens[ks[1]] \o <<" ">> \o JoinTokens(Tail(ks))

TextSamples ==
  { JoinTokens(ks) :
      ks \in UNION { [1..n -> 1..Len(TextTokens)] : n \in 1..MaxTokens } }

\* the outcomes of the four configured patterns: those of RegexOutcomes
\* from number k on, one per field; group 0, which the date pattern uses,
\* is part of every match
RegexOutcomeSamples ==
  { [ invoice_number |-> RegexOutcomes[k],
      date           |-> LET o == RegexOutcomes[(k % Len(RegexOutcomes)) + 1]
                         IN IF o.kind \in {"nogroup", "unset"}
                            THEN RegexOutcomes[1] ELSE o,
      vendor         |-> RegexOutcomes[((k + 1) % Len(RegexOutcomes)) + 1],
      total_amount   |-> RegexOutcomes[((k + 2) % Len(RegexOutcomes)) + 1] ] :
      k \in 1..Len(RegexOutcomes) }

\* what _intelligent_date_extraction and _intelligent_vendor_extraction
\* return on the text
HeuristicSamples ==
  { [date |-> None, vendor |-> None],
    [date |-> Str(<<"2","0","2","4">>), vendor |-> Str(<<"A","C","M","E">>)] }

InitParse ==
  /\ ptext \in TextSamples
  /\ regex_outcome \in RegexOutcomeSamples
  /\ heuristic_outcome \in HeuristicSamples
  /\ parsed = [ f \in { Fields[k] : k \in 1..Len(Fields) } |-> None ]
  /\ consulted = {}
  /\ parse_pc = "call"
  /\ InitIdleFile /\ InitIdleValidate /\ InitIdleRun /\ InitIdleNotify
  /\ InitIdleGui

\* Parser.parse_invoice_data(text) returns
ParseInvoiceData ==
  /\ parse_pc = "call"
  /\ parsed' = parse_invoice_data(ptext, regex_outcome, heuristic_outcome)
  /\ consulted' = { f \in DOMAIN regex_outcome : Falsy(find_pattern(regex_outcome[f])) }
  /\ parse_pc' = "returned"
  /\ UNCHANGED << ptext, regex_outcome, heuristic_outcome, fileVars,
                  validateVars, runVars, notifyVars, guiVars >>

NextParse == ParseInvoiceData

SpecParse == InitParse /\ [][NextParse]_vars


\* --------------------------------------------- properties of SpecParse
ParseReturned == parse_pc = "returned"

Range(seq) == { seq[k] : k \in 1..Len(seq) }

\* the strings the currency patterns match in the text
AllFigures(text) == UNION { Range(FindAll(p, text)) : p \in 1..AmountPatternCount }

\* the number a matched string stands for
FigureValue(raw) == FloatOf(RemoveCurrency(raw))

\* the figures of a set that no figure of the set exceeds
MaxFigures(S) ==
  { m \in S : \A n \in S : ~FloatGreater(FigureValue(n), FigureValue(m)) }

\* C14 as stated: when the amount heuristic is used on a text with monetary
\* figures, total_amount is the raw string of a figure whose value is the
\* maximum over all the matches of the patterns
C14_MaxOfAllFigures ==
  (ParseReturned /\ "total_amount" \in consulted /\ AllFigures(ptext) # {})
    => parsed["total_amount"] \in { Str(m) : m \in MaxFigures(AllFigures(ptext)) }

\* C14 amended: when the configured pattern gives no amount, total_amount is
\* the raw string of a figure whose value is the maximum over the matches
\* with a value greater than zero, and is absent when no match has one
C14_MaxPositiveFigure ==
  (ParseReturned /\ "total_amount" \in consulted)
    => LET positive == { m \in AllFigures(ptext) : FigureValue(m).mant > 0 }
       IN IF positive = {} THEN parsed["total_amount"] = None
          ELSE parsed["total_amount"] \in { Str(m) : m \in MaxFigures(positive) }

\* "$50 $1,200.00 $75.25" with no amount from the configured pattern gave
\* "1,200.00"
C14_Witness ==
  /\ ParseReturned
  /\ ptext = JoinTokens(<< 1, 2, 3 >>)
  /\ "total_amount" \in consulted
  /\ parsed["total_amount"] = Str(<<"1",",","2","0","0",".","0","0">>)

\* the invoice patterns whose first match passes the acceptance filter:
\* at least three characters, not a number like 12 or 1.5
AcceptedInvoicePatterns(text) ==
  { p \in 1..InvoicePatternCount :
      /\ InvoiceGroup(p, text) # None
      /\ Len(Strip(InvoiceGroup(p, text).s)) >= 3
      /\ ~LooksLikeAmount(Strip(InvoiceGroup(p, text).s)) }

DeliveredText(method) ==
  IF method = "OCR" THEN ConcatOcrPages(ocr_pages) ELSE ConcatPages(page_returns)

\* C22: in every result extract_text_from_pdf returns, whatever its method,
\* text_length is the length of the returned text, and the record
\* process_single_invoice builds from the result carries the same number
C22_TextLength ==
  extract_outcome = "returned"
    => /\ extraction_result.extraction_method \in {"DIRECT", "OCR", "DIRECT_FAILED"}
       /\ extraction_result.text = DeliveredText(extraction_result.extraction_method)
       /\ extraction_result.text_length = Len(extraction_result.text)
       /\ pc = "done"
            => /\ processed_data["text_length"] = Len(extraction_result.text)
               /\ processed_data["extraction_method"]
                    = extraction_result.extraction_method

\* a validated record built from a DIRECT_FAILED result whose text is not
\* empty
C22_Witness ==
  /\ pc = "done"
  /\ extract_outcome = "returned"
  /\ extraction_result.extraction_method = "DIRECT_FAILED"
  /\ extraction_result.text # <<>>
  /\ processed_data["validation_details"].kind = "summary"
  /\ processed_data["text_length"] = Len(ConcatPages(page_returns))


\* ------------------------------------ further properties of SpecRun
\* C23: run_bot_logic works on a copy of the configuration: no step of a run,
\* whatever its use_ocr, changes the caller's config, so that after the run
\* config['ocr']['enabled'] has the value it had before the call
C23_CallerConfigUnchanged == [][config' = config]_vars

MessageHasFinished(message) ==
  CASE message = "Starting processing..." -> FALSE
    [] message = "No PDF invoices selected. Finished." -> TRUE
    [] OTHER -> FALSE

\* main() builds the window with the OCR checkbox set from the config; no
\* file is selected and no thread started
InitGui ==
  /\ config \in [ocr_enabled : BOOLEAN]
  /\ run_pc = "idle"
  /\ invoice_files = <<>>
  /\ use_ocr = FALSE
  /\ progress = <<>>
  /\ processed_results = <<>>
  /\ reported = <<>>
  /\ runs = 0
  /\ num_threads = None
  /\ gui_files = <<>>
  /\ ocr_enabled_var = config.ocr_enabled
  /\ start_button = "normal"
  /\ threads = <<>>
  /\ after_handled = 0
  /\ progress_bar = [maximum |-> 100, value |-> 0]
  /\ progress_label = [counts |-> <<0, 0>>, message |-> ""]
  /\ dialog = ""
  /\ completions = 0
  /\ InitIdleFile /\ InitIdleValidate /\ InitIdleNotify /\ InitIdleParse

\* _browse_files with a selection that is not empty (a cancelled dialog
\* changes nothing)
GuiBrowseFiles ==
  /\ \E files_selected \in Batches :
       /\ Len(files_selected) > 0
       /\ gui_files' = files_selected
  /\ UNCHANGED << ocr_enabled_var, start_button, threads, after_handled,
                  progress_bar, progress_label, dialog, completions,
                  fileVars, validateVars, runVars, notifyVars, parseVars >>

\* the user clicks the OCR checkbox bound to ocr_enabled_var
GuiToggleOcr ==
  /\ ocr_enabled_var' = ~ocr_enabled_var
  /\ UNCHANGED << gui_files, start_button, threads, after_handled,
                  progress_bar, progress_label, dialog, completions,
                  fileVars, validateVars, runVars, notifyVars, parseVars >>

\* _start_bot_thread with no file selected: the error box, and return
GuiStartNoFiles ==
  /\ start_button = "normal"
  /\ gui_files = <<>>
  /\ dialog' = "No invoice files selected."
  /\ UNCHANGED << gui_files, ocr_enabled_var, start_button, threads,
                  after_handled, progress_bar, progress_label, completions,
                  fileVars, validateVars, runVars, notifyVars, parseVars >>

\* _start_bot_thread with files selected: the button is disabled, the
\* progress widgets reset, and a thread started on the selected files
GuiStartBotThread ==
  /\ start_button = "normal"
  /\ gui_files # <<>>
  /\ Len(threads) < MaxRuns
  /\ start_button' = "disabled"
  /\ progress_bar' = [progress_bar EXCEPT !.value = 0]
  /\ progress_label' = [counts |-> <<0, 0>>, message |-> ""]
  /\ threads' = Append(threads, [files |-> gui_files, ocr |-> ocr_enabled_var])
  /\ UNCHANGED << gui_files, ocr_enabled_var, after_handled, dialog,
                  completions, fileVars, validateVars, runVars, notifyVars,
                  parseVars >>

\* the processing thread calls run_bot_logic with the args it was given;
\* its callback _update_progress queues the call for the main loop
ThreadRunBotLogic ==
  /\ runs < Len(threads)
  /\ RunStart
  /\ invoice_files' = threads[runs + 1].files
  /\ use_ocr' = threads[runs + 1].ocr

\* the main loop runs the next queued __update_progress_gui
GuiUpdateProgress ==
  /\ after_handled < Len(progress)
  /\ LET call == progress[after_handled + 1]
     IN /\ after_handled' = after_handled + 1
        /\ IF call.total > 0
             THEN /\ progress_bar' = [maximum |-> call.total, value |-> call.current]
                  /\ progress_label' = [counts |-> <<call.current, call.total>>,
                                        message |-> call.message]
             ELSE /\ progress_label' = [counts |-> <<>>, message |-> call.message]
                  /\ UNCHANGED progress_bar
        /\ CASE call.current = call.total /\ call.total > 0 ->
                  /\ start_button' = "normal"
                  /\ dialog' = "Invoice processing finished!"
                  /\ completions' = completions + 1
             [] call.total = 0 /\ call.current = 0
                  /\ MessageHasFinished(call.message) ->
                  /\ start_button' = "normal"
                  /\ dialog' = "No PDF invoices found to process."
                  /\ completions' = completions + 1
             [] OTHER -> UNCHANGED << start_button, dialog, completions >>
  /\ UNCHANGED << gui_files, ocr_enabled_var, threads, fileVars, validateVars,
                  runVars, notifyVars, parseVars >>

NextGui ==
  \/ GuiBrowseFiles
  \/ GuiToggleOcr
  \/ GuiStartNoFiles
  \/ GuiStartBotThread
  \/ ThreadRunBotLogic
  \/ RunNameError
  \/ GuiUpdateProgress

SpecGui == InitGui /\ [][NextGui]_vars

\* --------------------------------------------- properties of SpecGui
\* C24: when a run over N >= 1 files has ended and the main loop has run
\* every queued callback, the window has signalled completion exactly once
\* for each run (Start button enabled again, "Processing Complete" shown),
\* and the report was generated before; and the Start button is never
\* enabled while a run is between its start and its end
C24_CompletionOnce ==
  /\ (RunEnded /\ Len(invoice_files) >= 1 /\ after_handled = Len(progress))
       => /\ completions = runs
          /\ start_button = "normal"
          /\ dialog = "Invoice processing finished!"
          /\ Len(reported) = 1
  /\ (threads # <<>> /\ start_button = "normal") => RunEnded
====
